---------------------------- MODULE Spec2Model ----------------------------
(***************************************************************************)
(* A model of the file exchange portal (src/app.py, src/config.py):        *)
(* the users and invites tables, the sessions, the file directory with    *)
(* its _approved archive, the JSON index and the request handlers.        *)
(*                                                                         *)
(* Python values are modelled as follows.  A str is a TLA+ string.  A     *)
(* value that may be None (the result of dict.get, a form field) is an    *)
(* option: None is <<>> and a present value s is <<s>>.  A dict is a      *)
(* function whose DOMAIN is the set of keys present.                      *)
(***************************************************************************)
EXTENDS Naturals, Sequences, FiniteSets, TLC

VARIABLES
  users,        \* users table: username -> [role, is_active]
  sessions,     \* the logged-in session cookies: [user, role]
  invite_code,  \* config.INVITE_CODE, "" when no bypass code is configured
  invites,      \* invites table: code -> [is_used, used_by, used_at]
  reg,          \* requests running step by step: worker -> position and locals
  created,      \* history: the (username, invite presented) of every account register created
  files,        \* FILES_DIR: file name -> [content, mtime]
  approved,     \* FILES_DIR/_approved: file name -> content
  idx,          \* the persisted index (.index.json): file name -> meta dict
  next_content, \* the content of the next uploaded file (each upload is distinguishable)
  now,          \* the clock, in seconds
  resp,         \* the response to the last request
  served,       \* the number of requests served (bounded in the files study)
  nsIn,         \* normalize_stage study: the input value
  nsOut,        \* normalize_stage study: the results of successive applications
  mailer,       \* the mail settings of config.py and whether the SMTP server answers
  outbox        \* the send attempts made so far, one record per smtplib session

vars == <<users, sessions, invite_code, invites, reg, created, files, approved,
          idx, next_content, now, resp, served, nsIn, nsOut, mailer, outbox>>

-----------------------------------------------------------------------------
(* Python helpers *)

None == <<>>

Some(s) == <<s>>

Range(f) == {f[x] : x \in DOMAIN f}

Min(a, b) == IF a < b THEN a ELSE b

\* d.get(k): the value under k, None when the key is missing
Get(d, k) == IF k \in DOMAIN d THEN Some(d[k]) ELSE None

\* d.get(k, dflt)
GetOr(d, k, dflt) == IF k \in DOMAIN d THEN d[k] ELSE dflt

\* d[k] = v
Put(d, k, v) == [x \in DOMAIN d \cup {k} |-> IF x = k THEN v ELSE d[x]]

\* d.pop(k, None)
Pop(d, k) == [x \in DOMAIN d \ {k} |-> d[x]]

IsSpace(c) == c \in {" ", "\t", "\n"}

RECURSIVE LStrip(_)
LStrip(s) ==
  IF Len(s) > 0 /\ IsSpace(SubSeq(s, 1, 1))
  THEN LStrip(SubSeq(s, 2, Len(s)))
  ELSE s

RECURSIVE RStrip(_)
RStrip(s) ==
  IF Len(s) > 0 /\ IsSpace(SubSeq(s, Len(s), Len(s)))
  THEN RStrip(SubSeq(s, 1, Len(s) - 1))
  ELSE s

\* str.strip()
Strip(s) == RStrip(LStrip(s))

\* s[:n]
Prefix(s, n) == SubSeq(s, 1, Min(Len(s), n))

\* c * n
RECURSIVE Repeat(_, _)
Repeat(c, n) == IF n = 0 THEN "" ELSE c \o Repeat(c, n - 1)

-----------------------------------------------------------------------------
(* src/config.py *)

STAGE_CHOICES ==
  << "First draft",
     "Rewritten/Updated version",
     "Publisher asked for feedback" >>

STAGE_ALIASES ==
  ( "First draft approval" :> "First draft" ) @@
  ( "First draft approved" :> "First draft" ) @@
  ( "Rewritten version" :> "Rewritten/Updated version" ) @@
  ( "Publisher asking for feedback" :> "Publisher asked for feedback" ) @@
  ( "Feedback required from the publisher" :> "Publisher asked for feedback" )

-----------------------------------------------------------------------------
(* normalize_stage *)

\* normalize_stage with the fallback missing: an unrecognised value is kept
normalize_stage_keep(value) ==
  IF value = None
  THEN STAGE_CHOICES[1]
  ELSE LET v == Strip(value[1])
           w == IF v \in DOMAIN STAGE_ALIASES THEN STAGE_ALIASES[v] ELSE v
       IN  w

\* value is an option (None or a str); the result is a str
normalize_stage(value) ==
  IF value = None
  THEN STAGE_CHOICES[1]
  ELSE LET v == Strip(value[1])
       IN  IF v = ""
           THEN ""
           ELSE LET w == IF v \in DOMAIN STAGE_ALIASES THEN STAGE_ALIASES[v] ELSE v
                IN  IF w \in Range(STAGE_CHOICES) THEN w ELSE STAGE_CHOICES[1]

-----------------------------------------------------------------------------
(* Time, sessions and responses *)

MaxTime == 1

Digits == << "0", "1", "2", "3", "4", "5", "6", "7", "8", "9" >>

\* datetime.utcnow().isoformat() + "Z", the clock counting seconds
IsoFormat(t) == "2025-01-01T00:00:0" \o Digits[t + 1] \o "Z"

\* a browser without a session cookie
NoSession == [logged_in |-> FALSE]

Session(u, r) == [logged_in |-> TRUE, user |-> u, role |-> r]

LoggedIn(s) == GetOr(s, "logged_in", FALSE) = TRUE

Flash(cat, msg) == << cat, msg >>

Redirect(op, to, flashes) ==
  [op |-> op, status |-> 302, to |-> to, flash |-> flashes]

Abort(op, code) == [op |-> op, status |-> code, to |-> "", flash |-> << >>]

Render(op, flashes) == [op |-> op, status |-> 200, to |-> "", flash |-> flashes]

\* config.py as it is without environment variables: notifications enabled,
\* no SMTP credentials
DefaultMailer == [enabled |-> TRUE, credentials |-> FALSE, up |-> TRUE]

\* the clock advances between requests
Tick ==
  /\ now < MaxTime
  /\ now' = now + 1
  /\ UNCHANGED <<users, sessions, invite_code, invites, reg, created, files,
                 approved, idx, next_content, resp, served, nsIn, nsOut, mailer, outbox>>

-----------------------------------------------------------------------------
(* Database functions: the users table *)

Roles == {"super", "admin", "user"}

\* get_user: None when there is no such row
get_user(username) == Get(users, username)

\* create_user on table T (the caller has checked that username is free)
create_user(T, username, role) ==
  Put(T, username, [role |-> role, is_active |-> 1])

set_role(T, username, role) ==
  [u \in DOMAIN T |-> IF u = username THEN [T[u] EXCEPT !.role = role] ELSE T[u]]

set_active(T, username, active) ==
  [u \in DOMAIN T |->
     IF u = username
     THEN [T[u] EXCEPT !.is_active = IF active # 0 THEN 1 ELSE 0]
     ELSE T[u]]

delete_user(T, username) == Pop(T, username)

count_supers ==
  Cardinality({u \in DOMAIN users : users[u].role = "super" /\ users[u].is_active = 1})

-----------------------------------------------------------------------------
(* Invite functions *)

revoke_invite(T, code) ==
  IF code \in DOMAIN T /\ T[code].is_used = 0 THEN Pop(T, code) ELSE T

invites_available ==
  Cardinality({c \in DOMAIN invites : invites[c].is_used = 0}) > 0

\* invite_is_valid without the bypass code
invite_is_valid_rows(code) ==
  IF code = ""
  THEN FALSE
  ELSE code \in DOMAIN invites /\ invites[code].is_used = 0

invite_is_valid(code) ==
  IF code = ""
  THEN FALSE
  ELSE IF invite_code # "" /\ code = invite_code
       THEN TRUE
       ELSE code \in DOMAIN invites /\ invites[code].is_used = 0

\* consume_invite without the is_used=0 guard of the UPDATE
consume_invite_unguarded(T, code, username) ==
  IF invite_code # "" /\ code = invite_code
  THEN T
  ELSE IF code \in DOMAIN T
       THEN [T EXCEPT ![code] =
               [is_used |-> 1, used_by |-> Some(username), used_at |-> Some(IsoFormat(now))]]
       ELSE T

consume_invite(T, code, username) ==
  IF invite_code # "" /\ code = invite_code
  THEN T
  ELSE IF code \in DOMAIN T /\ T[code].is_used = 0
       THEN [T EXCEPT ![code] =
               [is_used |-> 1, used_by |-> Some(username), used_at |-> Some(IsoFormat(now))]]
       ELSE T

\* create_invite_codes: the rows after inserting the fresh codes of `picked`
create_invite_codes(T, picked) ==
  [c \in DOMAIN T \cup picked |->
     IF c \in DOMAIN T THEN T[c] ELSE [is_used |-> 0, used_by |-> None, used_at |-> None]]

-----------------------------------------------------------------------------
(* Routes: authentication *)

MaxSessions == 1

\* login (POST).  The password hashes are not modelled: password_ok is the
\* result of check_password_hash for the submitted password.
login(username, password_ok) ==
  LET name == Strip(username)
      u == get_user(name)
      ok == u # None /\ u[1].is_active # 0 /\ password_ok
      cookie == Session(name, u[1].role)
  IN  /\ ok => (cookie \in sessions \/ Cardinality(sessions) < MaxSessions)
      /\ sessions' = IF ok THEN sessions \cup {cookie} ELSE sessions
      /\ resp' = IF ok
                 THEN Redirect("login", "index", << >>)
                 ELSE Render("login", << Flash("error", "Invalid credentials.") >>)
      /\ UNCHANGED <<users, invite_code, invites, reg, created, files, approved,
                     idx, next_content, now, nsIn, nsOut, mailer, outbox>>

\* logout: session.clear()
logout(s) ==
  /\ sessions' = IF LoggedIn(s) THEN sessions \ {s} ELSE sessions
  /\ resp' = Redirect("logout", "login", << >>)
  /\ UNCHANGED <<users, invite_code, invites, reg, created, files, approved,
                 idx, next_content, now, nsIn, nsOut, mailer, outbox>>

-----------------------------------------------------------------------------
(* Routes: admin (user management).  A flash message is modelled by its     *)
(* category and its fixed text, without the names formatted into it.       *)

\* the codes secrets.choice can produce, cut down to a small pool
CodePool == {"ABCDE", "HJKLM"}

IsDigits(str) ==
  /\ Len(str) > 0
  /\ \A i \in 1..Len(str) : SubSeq(str, i, i) \in Range(Digits)

DigitValue(c) == (CHOOSE i \in DOMAIN Digits : Digits[i] = c) - 1

\* int(s) of a string of digits
RECURSIVE ParseInt(_)
ParseInt(str) ==
  IF Len(str) = 0
  THEN 0
  ELSE 10 * ParseInt(SubSeq(str, 1, Len(str) - 1)) + DigitValue(SubSeq(str, Len(str), Len(str)))

Clamp(lo, n, hi) == IF n < lo THEN lo ELSE IF n > hi THEN hi ELSE n

UserActions ==
  {"promote", "demote", "make_super", "deactivate", "activate", "reset_password",
   "delete_user"}

\* form.get(k, dflt) or dflt
FormOr(form, k, dflt) == IF GetOr(form, k, dflt) = "" THEN dflt ELSE GetOr(form, k, dflt)

\* the number and length of the codes gen_invites asks for; None when int() raises
GenRequest(form) ==
  LET c == FormOr(form, "count", "10")
      l == FormOr(form, "length", "7")
  IN  IF IsDigits(c) /\ IsDigits(l)
      THEN Some([n |-> Clamp(1, ParseInt(c), 50), length |-> Clamp(5, ParseInt(l), 10)])
      ELSE None

\* the codes gen_invites can insert: n codes of the length, none of them a row yet
CanPick(form, picked) ==
  LET g == GenRequest(form)
  IN  IF Get(form, "action") = Some("gen_invites") /\ g # None
      THEN /\ picked \subseteq {c \in CodePool : Len(c) = g[1].length /\ c \notin DOMAIN invites}
           /\ Cardinality(picked) = g[1].n
      ELSE picked = {}

\* the body of admin_users_action for a super session: [users, invites, resp]
AdminOutcome(s, form, picked) ==
  LET op == "admin_users_action"
      action == Get(form, "action")
      username == Get(form, "username")
      name == username[1]
      same == [users |-> users, invites |-> invites]
      Done(T, I, cat, msg) ==
        [users |-> T, invites |-> I, resp |-> Redirect(op, "admin_users", << Flash(cat, msg) >>)]
  IN  IF action # None /\ action[1] \in UserActions
         /\ (username = None \/ username = Some("") \/ get_user(username[1]) = None)
      THEN Done(users, invites, "error", "Unknown user.")
      ELSE CASE action = Some("promote") ->
                  Done(set_role(users, name, "admin"), invites,
                       "ok", "Promoted")
             [] action = Some("demote") ->
                  IF username = Get(s, "user")
                  THEN Done(users, invites, "error", "Refusing to demote the current superuser.")
                  ELSE Done(set_role(users, name, "user"), invites,
                            "ok", "Demoted")
             [] action = Some("make_super") ->
                  Done(set_role(users, name, "super"), invites,
                       "ok", "Granted super role to")
             [] action = Some("deactivate") ->
                  IF username = Get(s, "user")
                  THEN Done(users, invites, "error", "Refusing to deactivate the current superuser.")
                  ELSE Done(set_active(users, name, 0), invites, "ok", "Deactivated")
             [] action = Some("activate") ->
                  Done(set_active(users, name, 1), invites, "ok", "Activated")
             [] action = Some("reset_password") ->
                  IF Len(GetOr(form, "new_password", "")) < 6
                  THEN Done(users, invites, "error", "New password must be at least 6 characters.")
                  ELSE Done(users, invites, "ok", "Password reset for")
             [] action = Some("delete_user") ->
                  IF username = Get(s, "user")
                  THEN Done(users, invites, "error", "Refusing to delete the current superuser.")
                  ELSE IF users[name].role = "super" /\ count_supers <= 1
                       THEN Done(users, invites, "error", "Cannot delete the last active superuser.")
                       ELSE Done(delete_user(users, name), invites, "ok", "Deleted user")
             [] action = Some("gen_invites") ->
                  IF GenRequest(form) = None
                  THEN [users |-> users, invites |-> invites, resp |-> Abort(op, 500)]
                  ELSE Done(users, create_invite_codes(invites, picked), "ok", "Generated")
             [] action = Some("revoke_invite") ->
                  Done(users, revoke_invite(invites, GetOr(form, "code", "")),
                       "ok", "Revoked")
             [] OTHER -> Done(users, invites, "error", "Unknown action.")

\* admin_users_action (POST) from the browser holding session s; picked are the
\* codes the generator draws
admin_users_action(s, form, picked) ==
  /\ CanPick(form, picked)
  /\ LET out == IF ~LoggedIn(s)
                THEN [users |-> users, invites |-> invites,
                      resp |-> Redirect("admin_users_action", "login", << >>)]
                ELSE IF Get(s, "role") # Some("super")
                     THEN [users |-> users, invites |-> invites,
                           resp |-> Abort("admin_users_action", 403)]
                     ELSE AdminOutcome(s, form, picked)
     IN  /\ users' = out.users
         /\ invites' = out.invites
         /\ resp' = out.resp
  /\ UNCHANGED <<sessions, invite_code, reg, created, files, approved, idx,
                 next_content, now, nsIn, nsOut, mailer, outbox>>

-----------------------------------------------------------------------------
(* The accounts study: a seeded users table, logins and user management *)

Usernames == {"root", "ann", "bob"}

SeededUsers ==
  ( "root" :> [role |-> "super", is_active |-> 1] ) @@
  ( "ann" :> [role |-> "admin", is_active |-> 1] ) @@
  ( "bob" :> [role |-> "user", is_active |-> 1] )

UserForms ==
  {[action |-> a, username |-> u] : a \in UserActions \ {"reset_password"},
                                    u \in Usernames \cup {"nobody"}}
    \cup {[action |-> "reset_password", username |-> "bob", new_password |-> p] :
            p \in {"short", "longer-password"}}
    \cup {[action |-> "promote"], [action |-> "frobnicate"], [username |-> "bob"]}

InitUsers ==
  /\ users = SeededUsers
  /\ sessions = {}
  /\ invite_code = ""
  /\ invites = << >>
  /\ reg = << >>
  /\ created = {}
  /\ files = << >>
  /\ approved = << >>
  /\ idx = << >>
  /\ next_content = 1
  /\ now = 0
  /\ resp = << >>
  /\ served = 0
  /\ nsIn = None
  /\ nsOut = << >>
  /\ mailer = DefaultMailer
  /\ outbox = << >>

Login ==
  /\ \E u \in Usernames \cup {" root ", "nobody"}, ok \in BOOLEAN : login(u, ok)
  /\ UNCHANGED served

Logout ==
  /\ \E s \in sessions \cup {NoSession} : logout(s)
  /\ UNCHANGED served

ManageUsers ==
  /\ \E s \in sessions \cup {NoSession}, form \in UserForms : admin_users_action(s, form, {})
  /\ UNCHANGED served

NextUsers == Login \/ Logout \/ ManageUsers

SpecUsers == InitUsers /\ [][NextUsers]_vars

-----------------------------------------------------------------------------
(* register (POST) *)

\* invite_required without the look at the invites table
InviteRequiredByCodeOnly == invite_code # ""

\* invite_required = bool(INVITE_CODE) or invites_available()
InviteRequired == invite_code # "" \/ invites_available

\* the checks made before the account is created: the flash that rejects the
\* request, None when it passes
RegisterRejection(form, invite_required) ==
  LET invite == Strip(GetOr(form, "invite", ""))
      username == Strip(GetOr(form, "username", ""))
      password == GetOr(form, "password", "")
  IN  IF invite_required /\ ~(invite # "" /\ invite_is_valid(invite))
      THEN Some(Flash("error", "Invalid invite code."))
      ELSE IF username = "" \/ password = ""
           THEN Some(Flash("error", "Username and password are required."))
           ELSE None

\* the history entry of an account created by register
Creation(form, invite_required) ==
  [username |-> Strip(GetOr(form, "username", "")),
   invite |-> Strip(GetOr(form, "invite", "")),
   invite_required |-> invite_required]

\* register run to completion with no other request in between
register(s, form) ==
  LET invite == Strip(GetOr(form, "invite", ""))
      username == Strip(GetOr(form, "username", ""))
      required == InviteRequired
      rejection == RegisterRejection(form, required)
  IN  /\ IF LoggedIn(s)
         THEN /\ resp' = Redirect("register", "index", << >>)
              /\ UNCHANGED <<users, invites, sessions, created>>
         ELSE IF rejection # None
              THEN /\ resp' = Redirect("register", "register", << rejection[1] >>)
                   /\ UNCHANGED <<users, invites, sessions, created>>
              ELSE IF get_user(username) # None
                   THEN /\ resp' = Redirect("register", "register",
                                            << Flash("error", "Username already taken.") >>)
                        /\ UNCHANGED <<users, invites, sessions, created>>
                   ELSE /\ users' = create_user(users, username, "user")
                        /\ invites' = IF required
                                      THEN consume_invite(invites, invite, username)
                                      ELSE invites
                        /\ sessions' = sessions \cup {Session(username, "user")}
                        /\ created' = created \cup {Creation(form, required)}
                        /\ resp' = Redirect("register", "index",
                                            << Flash("ok", "Welcome! Account created.") >>)
      /\ UNCHANGED <<invite_code, reg, files, approved, idx, next_content, now,
                     nsIn, nsOut, mailer, outbox>>

-----------------------------------------------------------------------------
(* register (POST), one step per database call.  Requests run concurrently *)
(* in MaxRegs workers; reg[r] is worker r's position and locals.           *)

MaxRegs == 2

Idle == [pc |-> "idle"]

RegUnchanged == <<invite_code, files, approved, idx, next_content, now, nsIn, nsOut, mailer, outbox>>

\* the request arrives: invite_required = bool(INVITE_CODE) or invites_available()
register_begin(r, s, form) ==
  /\ reg[r].pc = "idle"
  /\ IF LoggedIn(s)
     THEN /\ resp' = Redirect("register", "index", << >>)
          /\ reg' = reg
     ELSE /\ reg' = [reg EXCEPT ![r] =
                       [pc |-> "check", form |-> form, invite_required |-> InviteRequired]]
          /\ resp' = resp
  /\ UNCHANGED <<users, sessions, invites, created>>
  /\ UNCHANGED RegUnchanged

\* the invite check, then the form validation
register_check(r) ==
  /\ reg[r].pc = "check"
  /\ LET rejection == RegisterRejection(reg[r].form, reg[r].invite_required)
     IN  IF rejection # None
         THEN /\ resp' = Redirect("register", "register", << rejection[1] >>)
              /\ reg' = [reg EXCEPT ![r] = Idle]
         ELSE /\ resp' = resp
              /\ reg' = [reg EXCEPT ![r].pc = "lookup"]
  /\ UNCHANGED <<users, sessions, invites, created>>
  /\ UNCHANGED RegUnchanged

\* if get_user(username): "Username already taken."
register_lookup(r) ==
  /\ reg[r].pc = "lookup"
  /\ IF get_user(Strip(reg[r].form.username)) # None
     THEN /\ resp' = Redirect("register", "register",
                              << Flash("error", "Username already taken.") >>)
          /\ reg' = [reg EXCEPT ![r] = Idle]
     ELSE /\ resp' = resp
          /\ reg' = [reg EXCEPT ![r].pc = "create"]
  /\ UNCHANGED <<users, sessions, invites, created>>
  /\ UNCHANGED RegUnchanged

\* create_user: the INSERT raises IntegrityError when the name was taken meanwhile
register_create(r) ==
  /\ reg[r].pc = "create"
  /\ LET username == Strip(reg[r].form.username)
     IN  IF username \in DOMAIN users
         THEN /\ resp' = Abort("register", 500)
              /\ reg' = [reg EXCEPT ![r] = Idle]
              /\ UNCHANGED <<users, created>>
         ELSE /\ users' = create_user(users, username, "user")
              /\ created' = created \cup {Creation(reg[r].form, reg[r].invite_required)}
              /\ reg' = [reg EXCEPT ![r].pc = "consume"]
              /\ resp' = resp
  /\ UNCHANGED <<sessions, invites>>
  /\ UNCHANGED RegUnchanged

\* consume_invite when an invite was required, then the session is set
register_consume(r) ==
  /\ reg[r].pc = "consume"
  /\ LET username == Strip(reg[r].form.username)
         invite == Strip(GetOr(reg[r].form, "invite", ""))
     IN  /\ invites' = IF reg[r].invite_required
                       THEN consume_invite(invites, invite, username)
                       ELSE invites
         /\ sessions' = sessions \cup {Session(username, "user")}
         /\ resp' = Redirect("register", "index", << Flash("ok", "Welcome! Account created.") >>)
         /\ reg' = [reg EXCEPT ![r] = Idle]
  /\ UNCHANGED <<users, created>>
  /\ UNCHANGED RegUnchanged

-----------------------------------------------------------------------------
(* The invites study: a super generates and revokes codes, visitors        *)
(* register, one request at a time                                         *)

RegForms ==
  {[invite |-> i, username |-> u, password |-> "pw"] :
     i \in {"", " ABCDE ", "HJKLM", "WRONG"}, u \in {"bob", "eve"}}
    \cup {[invite |-> "HJKLM", username |-> " ", password |-> "pw"],
          [invite |-> "HJKLM", username |-> "eve", password |-> ""],
          [username |-> "bob", password |-> "pw"]}

InviteForms ==
  {[action |-> "gen_invites", count |-> c, length |-> "5"] : c \in {"0", "1", "2"}}
    \cup {[action |-> "gen_invites", count |-> "1", length |-> "3"],
          [action |-> "gen_invites", count |-> "many"],
          [action |-> "gen_invites"]}
    \cup {[action |-> "revoke_invite", code |-> c] : c \in CodePool}
    \cup {[action |-> "revoke_invite"]}

InitInvites ==
  /\ users = ( "root" :> [role |-> "super", is_active |-> 1] )
  /\ sessions = {Session("root", "super")}
  /\ invite_code \in {"", "ABCDE"}
  /\ invites = << >>
  /\ reg = << >>
  /\ created = {}
  /\ files = << >>
  /\ approved = << >>
  /\ idx = << >>
  /\ next_content = 1
  /\ now = 0
  /\ resp = << >>
  /\ served = 0
  /\ nsIn = None
  /\ nsOut = << >>
  /\ mailer = DefaultMailer
  /\ outbox = << >>

Register ==
  /\ \E s \in sessions \cup {NoSession}, form \in RegForms : register(s, form)
  /\ UNCHANGED served

ManageInvites ==
  /\ \E s \in sessions, form \in InviteForms, picked \in SUBSET CodePool :
      admin_users_action(s, form, picked)
  /\ UNCHANGED served

NextInvites == Register \/ ManageInvites \/ Tick

SpecInvites == InitInvites /\ [][NextInvites]_vars

-----------------------------------------------------------------------------
(* The registration race: the same, with the register requests interleaved *)
(* at their database calls                                                  *)

RaceForms ==
  {[invite |-> "HJKLM", username |-> u, password |-> "pw"] : u \in {"bob", "eve"}}

RaceInviteForms ==
  {[action |-> "gen_invites", count |-> "1", length |-> "5"],
   [action |-> "revoke_invite", code |-> "HJKLM"]}

InitRace ==
  /\ users = ( "root" :> [role |-> "super", is_active |-> 1] )
  /\ sessions = {Session("root", "super")}
  /\ invite_code = ""
  /\ invites = << >>
  /\ reg = [r \in 1..MaxRegs |-> Idle]
  /\ created = {}
  /\ files = << >>
  /\ approved = << >>
  /\ idx = << >>
  /\ next_content = 1
  /\ now = 0
  /\ resp = << >>
  /\ served = 0
  /\ nsIn = None
  /\ nsOut = << >>
  /\ mailer = DefaultMailer
  /\ outbox = << >>

RegisterBegin ==
  /\ \E r \in 1..MaxRegs, s \in sessions \cup {NoSession}, form \in RaceForms :
      register_begin(r, s, form)
  /\ UNCHANGED served

RegisterCheck ==
  /\ \E r \in 1..MaxRegs : register_check(r)
  /\ UNCHANGED served

RegisterLookup ==
  /\ \E r \in 1..MaxRegs : register_lookup(r)
  /\ UNCHANGED served

RegisterCreate ==
  /\ \E r \in 1..MaxRegs : register_create(r)
  /\ UNCHANGED served

RegisterConsume ==
  /\ \E r \in 1..MaxRegs : register_consume(r)
  /\ UNCHANGED served

RaceManageInvites ==
  /\ \E s \in {Session("root", "super")}, form \in RaceInviteForms, picked \in {{}, {"HJKLM"}} :
      admin_users_action(s, form, picked)
  /\ UNCHANGED served

NextRace ==
  \/ RegisterBegin
  \/ RegisterCheck
  \/ RegisterLookup
  \/ RegisterCreate
  \/ RegisterConsume
  \/ RaceManageInvites

SpecRace == InitRace /\ [][NextRace]_vars

-----------------------------------------------------------------------------
(* Characters and file names *)

LowerLetters == "abcdefghijklmnopqrstuvwxyz"

UpperLetters == "ABCDEFGHIJKLMNOPQRSTUVWXYZ"

Chars(str) == {SubSeq(str, i, i) : i \in 1..Len(str)}

IndexIn(str, c) == CHOOSE i \in 1..Len(str) : SubSeq(str, i, i) = c

LowerSet == Chars(LowerLetters)

UpperSet == Chars(UpperLetters)

DigitSet == Range(Digits)

IsLetter(c) == c \in LowerSet \/ c \in UpperSet

LowerChar(c) ==
  IF c \in UpperSet
  THEN SubSeq(LowerLetters, IndexIn(UpperLetters, c), IndexIn(UpperLetters, c))
  ELSE c

UpperChar(c) ==
  IF c \in LowerSet
  THEN SubSeq(UpperLetters, IndexIn(LowerLetters, c), IndexIn(LowerLetters, c))
  ELSE c

\* str.lower()
RECURSIVE Lower(_)
Lower(str) ==
  IF Len(str) = 0
  THEN ""
  ELSE Lower(SubSeq(str, 1, Len(str) - 1)) \o LowerChar(SubSeq(str, Len(str), Len(str)))

\* str.title(): a letter after a letter is lowered, any other letter is raised
RECURSIVE Title(_)
Title(str) ==
  IF Len(str) = 0
  THEN ""
  ELSE LET n == Len(str)
           c == SubSeq(str, n, n)
           follows == n > 1 /\ IsLetter(SubSeq(str, n - 1, n - 1))
       IN  Title(SubSeq(str, 1, n - 1)) \o (IF follows THEN LowerChar(c) ELSE UpperChar(c))

\* \w
IsWordChar(c) == IsLetter(c) \/ c \in DigitSet \/ c = "_"

\* re.fullmatch(r"[\w,\-\.\ ]+\.zip", filename, flags=re.IGNORECASE)
is_safe_filename(filename) ==
  LET n == Len(filename)
  IN  /\ n >= 5
      /\ Lower(SubSeq(filename, n - 3, n)) = ".zip"
      /\ \A i \in 1..(n - 4) :
           LET c == SubSeq(filename, i, i)
           IN  IsWordChar(c) \/ c \in {",", "-", ".", " "}

\* Path(filename).stem and .suffix of a safe file name
Stem(filename) == SubSeq(filename, 1, Len(filename) - 4)

Suffix(filename) == SubSeq(filename, Len(filename) - 3, Len(filename))

\* datetime.utcnow().strftime("%Y%m%d%H%M%S")
StrfTime(t) == "2025010100000" \o Digits[t + 1]

-----------------------------------------------------------------------------
(* The index *)

\* the first non-empty note of the legacy notes_by pairs, stripped and cut
RECURSIVE FirstNote(_)
FirstNote(pairs) ==
  IF Len(pairs) = 0
  THEN ""
  ELSE IF Strip(pairs[1][2]) # ""
       THEN Prefix(Strip(pairs[1][2]), 100)
       ELSE FirstNote(Tail(pairs))

\* what load_index does to one record
LoadMeta(meta) ==
  LET m1 == Put(meta, "stage", normalize_stage(Get(meta, "stage")))
      m2 == IF "note" \notin DOMAIN m1
            THEN Put(m1, "note", FirstNote(GetOr(m1, "notes_by", << >>)))
            ELSE Put(m1, "note", Prefix(Strip(m1["note"]), 100))
      m3 == IF "note_by" \in DOMAIN m2 THEN m2 ELSE Put(m2, "note_by", "")
  IN  IF "note_at" \in DOMAIN m3 THEN m3 ELSE Put(m3, "note_at", "")

\* load_index: the persisted index as the handlers see it
load_index == [f \in DOMAIN idx |-> LoadMeta(idx[f])]

\* what save_index does to one record
SaveMeta(meta) ==
  LET m1 == Put(meta, "stage", normalize_stage(Get(meta, "stage")))
      m2 == Put(m1, "note", Prefix(Strip(GetOr(m1, "note", "")), 100))
      m3 == Put(m2, "note_by", Strip(GetOr(m2, "note_by", "")))
  IN  Put(m3, "note_at", Strip(GetOr(m3, "note_at", "")))

\* save_index(data): the document written
save_index(data) == [f \in DOMAIN data |-> SaveMeta(data[f])]

\* idx.get(filename) or {}
\* a handler that starts from an empty record instead of the stored one
MetaOfEmpty(data, filename) == << >>

MetaOf(data, filename) == IF filename \in DOMAIN data THEN data[filename] ELSE << >>

\* meta_get_uploader_role without the stored snapshot: always the account's role
meta_get_uploader_role_current(meta) ==
  LET uploader == Get(meta, "uploader")
  IN  IF uploader # None /\ uploader # Some("") /\ get_user(uploader[1]) # None
      THEN get_user(uploader[1])[1].role
      ELSE "admin"

\* meta_get_uploader_role
meta_get_uploader_role(meta) ==
  LET role == Get(meta, "uploader_role")
      uploader == Get(meta, "uploader")
  IN  IF role \in {Some("user"), Some("admin"), Some("super")}
      THEN role[1]
      ELSE IF uploader # None /\ uploader # Some("") /\ get_user(uploader[1]) # None
           THEN get_user(uploader[1])[1].role
           ELSE "admin"

-----------------------------------------------------------------------------
(* Routes: main application.  An outcome is what a request leaves behind:  *)
(* the file directory, the archive, the persisted index and the response.  *)

MaxUploads == 3

ALLOWED_EXT == {"zip", "docx", "pdf"}

Keep(r) == [files |-> files, approved |-> approved, idx |-> idx, resp |-> r]

Saved(data, r) ==
  [files |-> files, approved |-> approved, idx |-> save_index(data), resp |-> r]

ToIndex(op, flashes) == Redirect(op, "index", flashes)

\* role_required("admin"): r == role or (role == "admin" and r == "super")
IsStaff(s) == Get(s, "role") \in {Some("admin"), Some("super")}

\* the user name the handlers record: session.get("user", "?")
SessionUser(s) == GetOr(s, "user", "?")

\* the part of the name after the last ".", lowered; "" when there is no "."
RECURSIVE AfterLastDot(_)
AfterLastDot(str) ==
  IF Len(str) = 0 \/ SubSeq(str, Len(str), Len(str)) = "."
  THEN ""
  ELSE AfterLastDot(SubSeq(str, 1, Len(str) - 1)) \o SubSeq(str, Len(str), Len(str))

Extension(filename) ==
  IF "." \in Chars(filename) THEN Lower(AfterLastDot(filename)) ELSE ""

KeptInName(c) == IsWordChar(c) \/ c \in {"-", ".", " "}

\* re.sub(r"[^\w\-. ]+", "_", filename): each run of other characters becomes one "_"
RECURSIVE SafeName(_)
SafeName(str) ==
  IF Len(str) = 0
  THEN ""
  ELSE LET n == Len(str)
           c == SubSeq(str, n, n)
           rest == SubSeq(str, 1, n - 1)
       IN  IF KeptInName(c)
           THEN SafeName(rest) \o c
           ELSE IF n > 1 /\ ~KeptInName(SubSeq(str, n - 1, n - 1))
                THEN SafeName(rest)
                ELSE SafeName(rest) \o "_"

\* request.form.get("urgency", "Normal").strip().title(), "Normal" unless High or Normal
FormUrgency(form) ==
  LET u == Title(Strip(GetOr(form, "urgency", "Normal")))
  IN  IF u \in {"High", "Normal"} THEN u ELSE "Normal"

\* normalize_stage(request.form.get("stage", STAGE_CHOICES[0]).strip())
FormStage(form) == normalize_stage(Some(Strip(GetOr(form, "stage", STAGE_CHOICES[1]))))

\* the record upload writes
NewRecord(s, urgency, stage) ==
  [uploader |-> SessionUser(s),
   uploader_role |-> GetOr(s, "role", "user"),
   uploaded_at |-> IsoFormat(now),
   urgency |-> urgency,
   stage |-> stage,
   reviewed_by |-> << >>,
   note |-> "",
   note_by |-> "",
   note_at |-> ""]

\* upload (POST) up to the flash that follows save_index; file is the
\* submitted file's name, None when no file part came
UploadOutcome(s, file, form) ==
  LET op == "upload"
      role == GetOr(s, "role", "user")
      safe_name == SafeName(file[1])
      urgency == IF role = "user" THEN "Normal" ELSE FormUrgency(form)
      stage == IF role = "user" THEN "" ELSE FormStage(form)
  IN  IF ~LoggedIn(s)
      THEN Keep(Redirect(op, "login", << >>))
      ELSE IF file = None \/ file = Some("")
           THEN Keep(ToIndex(op, << Flash("error", "No file selected.") >>))
           ELSE IF Extension(file[1]) \notin ALLOWED_EXT
                THEN Keep(ToIndex(op, << Flash("error", "Only .zip files are allowed.") >>))
                ELSE [files |-> Put(files, safe_name, [content |-> next_content, mtime |-> now]),
                      approved |-> approved,
                      idx |-> save_index(Put(load_index, safe_name, NewRecord(s, urgency, stage))),
                      resp |-> ToIndex(op, << Flash("ok", "Uploaded") >>)]

\* SELECT email FROM users WHERE role in roles AND is_active=1 AND email IS
\* NOT NULL AND email != ''; an account without address has no email attribute
RecipientsOf(roles) ==
  {users[u].email : u \in {v \in DOMAIN users : /\ users[v].role \in roles
                                                /\ users[v].is_active = 1
                                                /\ "email" \in DOMAIN users[v]
                                                /\ users[v].email # ""}}

\* send_email, as the SMTP sessions it opens: none when the notifications are
\* disabled, the credentials are missing or no address is left after the
\* stripping; otherwise one, which is delivered or raises inside the try
send_email(to_emails, subject) ==
  LET to == {Strip(e) : e \in {x \in to_emails : Strip(x) # ""}}
  IN  IF ~mailer.enabled
      THEN << >>
      ELSE IF ~mailer.credentials
           THEN << >>
           ELSE IF to = {}
                THEN << >>
                ELSE << [to |-> to, subject |-> subject, delivered |-> mailer.up] >>

\* notify_file_upload: one call of send_email
notify_file_upload(filename, recipient_emails) ==
  send_email(recipient_emails, "New File Upload: " \o filename)

\* the notification block of upload, as the SMTP sessions it opens; it is
\* reached only after the file and the index are saved
UploadNotification(s, file, out) ==
  IF out.files = files
  THEN << >>
  ELSE LET role == GetOr(s, "role", "user")
           recipient_emails == IF role = "user"
                               THEN RecipientsOf({"admin", "super"})
                               ELSE RecipientsOf({"user"})
       IN  IF recipient_emails = {}
           THEN << >>
           ELSE notify_file_upload(SafeName(file[1]), recipient_emails)

\* a failed send that reaches the client as a server error
AfterNotificationRaising(answer, attempts) ==
  IF attempts # << >> /\ ~attempts[1].delivered THEN Abort("upload", 500) ELSE answer

\* except Exception: print(...), then return redirect(url_for("index")): the
\* answer prepared before the notification is the answer
AfterNotification(answer, attempts) == answer

upload(s, file, form) ==
  LET out == UploadOutcome(s, file, form)
      attempts == UploadNotification(s, file, out)
  IN  /\ out.files # files => next_content <= MaxUploads
      /\ files' = out.files
      /\ approved' = out.approved
      /\ idx' = out.idx
      /\ outbox' = outbox \o attempts
      /\ resp' = AfterNotification(out.resp, attempts)
      /\ next_content' = IF out.files # files THEN next_content + 1 ELSE next_content
      /\ UNCHANGED <<users, sessions, invite_code, invites, reg, created, now, nsIn, nsOut, mailer>>

\* the checks every file-addressed handler makes first: Some(response) when
\* the request ends there
Gate(op, s, filename, staff_only) ==
  IF ~LoggedIn(s)
  THEN Some(Redirect(op, "login", << >>))
  ELSE IF staff_only /\ ~IsStaff(s)
       THEN Some(Abort(op, 403))
       ELSE IF ~is_safe_filename(filename)
            THEN Some(Abort(op, 400))
            ELSE IF filename \notin DOMAIN files
                 THEN Some(Abort(op, 404))
                 ELSE None

\* the uploader-role check of set_urgency and set_stage, left out
StaffEditBlockedNever(meta) == FALSE

\* if meta_get_uploader_role(meta) == "user": the staff may not edit the file
StaffEditBlocked(meta) == meta_get_uploader_role(meta) = "user"

SetUrgencyOutcome(s, filename, form) ==
  LET op == "set_urgency"
      gate == Gate(op, s, filename, TRUE)
      data == load_index
      meta == MetaOf(data, filename)
  IN  IF gate # None
      THEN Keep(gate[1])
      ELSE IF StaffEditBlocked(meta)
           THEN Keep(ToIndex(op, << Flash("error",
                  "Cannot change urgency for files uploaded by Amazon users.") >>))
           ELSE Saved(Put(data, filename, Put(meta, "urgency", FormUrgency(form))),
                      ToIndex(op, << Flash("ok", "Updated urgency") >>))

SetStageOutcome(s, filename, form) ==
  LET op == "set_stage"
      gate == Gate(op, s, filename, TRUE)
      data == load_index
      meta == MetaOf(data, filename)
  IN  IF gate # None
      THEN Keep(gate[1])
      ELSE IF StaffEditBlocked(meta)
           THEN Keep(ToIndex(op, << Flash("error",
                  "Cannot change stage for files uploaded by Amazon users.") >>))
           ELSE Saved(Put(data, filename, Put(meta, "stage", FormStage(form))),
                      ToIndex(op, << Flash("ok", "Updated stage") >>))

\* toggle_reviewed open to every role
ReviewerOnlyNever(s) == FALSE

\* if session.get("role") != "user": abort(403)
ReviewerOnly(s) == Get(s, "role") # Some("user")

ToggleReviewedOutcome(s, filename, form) ==
  LET op == "toggle_reviewed"
      gate == Gate(op, s, filename, FALSE)
      data == load_index
      meta == MetaOf(data, filename)
      checked == "1" \in Range(GetOr(form, "checked", << >>))
      rb == GetOr(meta, "reviewed_by", << >>)
  IN  IF LoggedIn(s) /\ ReviewerOnly(s)
      THEN Keep(Abort(op, 403))
      ELSE IF gate # None
           THEN Keep(gate[1])
           ELSE IF meta_get_uploader_role(meta) = "user"
                THEN Keep(ToIndex(op, << Flash("error",
                       "Reviewed is not required for files uploaded by Amazon users.") >>))
                ELSE Saved(Put(data, filename,
                               Put(meta, "reviewed_by", Put(rb, SessionUser(s), checked))),
                           ToIndex(op, << >>))

SetNoteOutcome(s, filename, form) ==
  LET op == "set_note"
      gate == Gate(op, s, filename, FALSE)
      typed == Strip(GetOr(form, "note", ""))
      note == IF Len(typed) > 100 THEN Prefix(typed, 100) ELSE typed
      cut == IF Len(typed) > 100
             THEN << Flash("error", "Note truncated to 100 characters.") >>
             ELSE << >>
      data == load_index
      meta == MetaOf(data, filename)
      edited == Put(Put(Put(meta, "note", note), "note_by", SessionUser(s)),
                    "note_at", IsoFormat(now))
  IN  IF gate # None
      THEN Keep(gate[1])
      ELSE Saved(Put(data, filename, edited),
                 ToIndex(op, cut \o << Flash("ok", "Note saved.") >>))

\* approve without the collision check: the archive name is the file's name
ApproveTargetPlain(filename) == filename

\* the archive name approve moves the file to
ApproveTarget(filename) ==
  IF filename \in DOMAIN approved
  THEN Stem(filename) \o "__approved_" \o StrfTime(now) \o Suffix(filename)
  ELSE filename

ApproveOutcome(s, filename) ==
  LET op == "approve"
      gate == Gate(op, s, filename, TRUE)
  IN  IF gate # None
      THEN Keep(gate[1])
      ELSE [files |-> Pop(files, filename),
            approved |-> Put(approved, ApproveTarget(filename), files[filename].content),
            idx |-> save_index(Pop(load_index, filename)),
            resp |-> ToIndex(op, << Flash("ok", "Archived") >>)]

\* delete_file open to every session
DeleteAllowedAlways(s, meta) == TRUE

\* role in ("admin", "super") or uploader_role == "user"
DeleteAllowed(s, meta) ==
  GetOr(s, "role", "user") \in {"admin", "super"} \/ meta_get_uploader_role(meta) = "user"

DeleteFileOutcome(s, filename) ==
  LET op == "delete_file"
      gate == Gate(op, s, filename, FALSE)
      data == load_index
      meta == MetaOf(data, filename)
  IN  IF gate # None
      THEN Keep(gate[1])
      ELSE IF ~DeleteAllowed(s, meta)
           THEN Keep(Abort(op, 403))
           ELSE [files |-> Pop(files, filename),
                 approved |-> approved,
                 idx |-> save_index(Pop(data, filename)),
                 resp |-> ToIndex(op, << Flash("ok", "Deleted") >>)]

\* a request that uploads nothing: its outcome becomes the state
Apply(out) ==
  /\ files' = out.files
  /\ approved' = out.approved
  /\ idx' = out.idx
  /\ resp' = out.resp
  /\ UNCHANGED <<users, sessions, invite_code, invites, reg, created, next_content,
                 now, nsIn, nsOut, mailer, outbox>>

set_urgency(s, filename, form) == Apply(SetUrgencyOutcome(s, filename, form))

set_stage(s, filename, form) == Apply(SetStageOutcome(s, filename, form))

toggle_reviewed(s, filename, form) == Apply(ToggleReviewedOutcome(s, filename, form))

set_note(s, filename, form) == Apply(SetNoteOutcome(s, filename, form))

approve(s, filename) == Apply(ApproveOutcome(s, filename))

delete_file(s, filename) == Apply(DeleteFileOutcome(s, filename))

-----------------------------------------------------------------------------
(* The files study: three logged-in sessions, one of each role, upload and *)
(* work on files, one request at a time, MaxRequests requests in all       *)
(* (the clock stands still here; it advances in the archive study)         *)

MaxRequests == 3

FileSessions == {Session("root", "super"), Session("ann", "admin"), Session("bob", "user")}

UploadFiles == {Some("a.zip"), Some("b#.ZIP"), Some("d.txt")}

UploadForms == {[urgency |-> " high ", stage |-> "First draft approved"]}

FileNames == {"a.zip", "b_.ZIP"}

\* names no stored file has
OddNames == {"../a.zip"}

UrgencyForms == {<< >>, [urgency |-> "HIGH"]}

StageForms == {[stage |-> " "], [stage |-> "Rewritten version"], [stage |-> "Done"]}

ReviewForms == {[checked |-> << "0", "1" >>], [checked |-> << "0" >>]}

NoteForms ==
  {[note |-> "  see page 2 "], [note |-> Repeat("x", 100) \o "y "],
   [note |-> " " \o Repeat("x", 99) \o " z"]}

InitFiles ==
  /\ users = SeededUsers
  /\ sessions = FileSessions
  /\ invite_code = ""
  /\ invites = << >>
  /\ reg = << >>
  /\ created = {}
  /\ files = << >>
  /\ approved = << >>
  /\ idx = << >>
  /\ next_content = 1
  /\ now = 0
  /\ resp = << >>
  /\ served = 0
  /\ nsIn = None
  /\ nsOut = << >>
  /\ mailer = DefaultMailer
  /\ outbox = << >>

\* one more request is served
Serve ==
  /\ served < MaxRequests
  /\ served' = served + 1

Upload ==
  /\ Serve
  /\ \E s \in FileSessions, file \in UploadFiles, form \in UploadForms : upload(s, file, form)

SetUrgency ==
  /\ Serve
  /\ \E s \in FileSessions, f \in FileNames, form \in UrgencyForms : set_urgency(s, f, form)

SetStage ==
  /\ Serve
  /\ \E s \in FileSessions, f \in FileNames, form \in StageForms : set_stage(s, f, form)

ToggleReviewed ==
  /\ Serve
  /\ \E s \in FileSessions, f \in FileNames, form \in ReviewForms : toggle_reviewed(s, f, form)

SetNote ==
  /\ Serve
  /\ \E s \in FileSessions, f \in FileNames, form \in NoteForms : set_note(s, f, form)

Approve ==
  /\ Serve
  /\ \E s \in FileSessions, f \in FileNames : approve(s, f)

DeleteFile ==
  /\ Serve
  /\ \E s \in FileSessions, f \in FileNames \cup OddNames : delete_file(s, f)

NextFiles ==
  \/ Upload
  \/ SetUrgency
  \/ SetStage
  \/ ToggleReviewed
  \/ SetNote
  \/ Approve
  \/ DeleteFile

SpecFiles == InitFiles /\ [][NextFiles]_vars

-----------------------------------------------------------------------------
(* The archive study: the sessions upload and approve files, with no bound *)
(* on the number of requests                                               *)

ArchiveUploads == {None, Some("a.zip"), Some("b#.ZIP")}

\* the sessions that upload in the archive study: one of the staff, one user
ArchiveSessions == {Session("ann", "admin"), Session("bob", "user")}

ArchiveUpload ==
  /\ \E s \in ArchiveSessions, file \in ArchiveUploads, form \in UploadForms :
       upload(s, file, form)
  /\ UNCHANGED served

ArchiveApprove ==
  /\ \E s \in ArchiveSessions \cup {NoSession}, f \in FileNames : approve(s, f)
  /\ UNCHANGED served

NextArchive == ArchiveUpload \/ ArchiveApprove \/ Tick

SpecArchive == InitFiles /\ [][NextArchive]_vars

-----------------------------------------------------------------------------
(* The normalize_stage study: every input of a bounded set, applied twice *)

MaxPad == 2

Pads == {Repeat(" ", n) : n \in 0..MaxPad} \cup {"\t"}

StageWords ==
  Range(STAGE_CHOICES) \cup DOMAIN STAGE_ALIASES
    \cup {"", "first draft", "Final", "Draft approved"}

StageInputs ==
  {None} \cup {Some(l \o w \o r) : l \in Pads, w \in StageWords, r \in Pads}

\* the parts of the state the study leaves alone
IdleSystem ==
  /\ users = << >>
  /\ sessions = {}
  /\ invite_code = ""
  /\ invites = << >>
  /\ reg = << >>
  /\ created = {}
  /\ files = << >>
  /\ approved = << >>
  /\ idx = << >>
  /\ next_content = 1
  /\ now = 0
  /\ resp = << >>
  /\ served = 0

InitNorm ==
  /\ IdleSystem
  /\ nsIn \in StageInputs
  /\ nsOut = << >>
  /\ mailer = DefaultMailer
  /\ outbox = << >>

NormalizeFirst ==
  /\ nsOut = << >>
  /\ nsOut' = << normalize_stage(nsIn) >>
  /\ UNCHANGED <<users, sessions, invite_code, invites, reg, created, files,
                 approved, idx, next_content, now, resp, served, nsIn, mailer, outbox>>

NormalizeAgain ==
  /\ Len(nsOut) = 1
  /\ nsOut' = Append(nsOut, normalize_stage(Some(nsOut[1])))
  /\ UNCHANGED <<users, sessions, invite_code, invites, reg, created, files,
                 approved, idx, next_content, now, resp, served, nsIn, mailer, outbox>>

NextNorm == NormalizeFirst \/ NormalizeAgain

SpecNorm == InitNorm /\ [][NextNorm]_vars

-----------------------------------------------------------------------------
(* C9 *)

\* what the claim says a str input s is mapped to
StageImage(s) ==
  CASE s \in Range(STAGE_CHOICES) -> s
    [] s \in DOMAIN STAGE_ALIASES -> STAGE_ALIASES[s]
    [] s = "" -> ""
    [] OTHER -> STAGE_CHOICES[1]

Idempotent == Len(nsOut) = 2 => nsOut[2] = nsOut[1]

\* C9 as stated: normalize_stage is idempotent and maps a canonical stage to
\* itself, an alias to its canonical stage, None to the first canonical
\* stage, "" to "" and any other value to the first canonical stage.
C9_AsStated ==
  /\ Idempotent
  /\ Len(nsOut) >= 1 =>
       nsOut[1] = IF nsIn = None THEN STAGE_CHOICES[1] ELSE StageImage(nsIn[1])

\* C9 amended: normalize_stage is idempotent and maps None to the first
\* canonical stage and a str by its value with the surrounding whitespace
\* stripped: a canonical stage to itself, an alias to its canonical stage,
\* "" (so also an all-whitespace value) to "", anything else to the first
\* canonical stage.
C9_NormalizeStage ==
  /\ Idempotent
  /\ Len(nsOut) >= 1 =>
       nsOut[1] = IF nsIn = None THEN STAGE_CHOICES[1] ELSE StageImage(Strip(nsIn[1]))

\* a padded alias has been normalized twice
C9_Witness ==
  /\ nsIn = Some(" Rewritten version  ")
  /\ nsOut = << "Rewritten/Updated version", "Rewritten/Updated version" >>

-----------------------------------------------------------------------------
(* C1 *)

\* C1: in every state reached from the seeded table by logins and user
\* management requests, the users table holds an active super account.
C1_ActiveSuperExists ==
  \E u \in DOMAIN users : users[u].role = "super" /\ users[u].is_active = 1

-----------------------------------------------------------------------------
(* C5 *)

\* the accounts register created after checking invite code c
CreatedWith(c) == {e \in created : e.invite_required /\ e.invite = c}

\* C5: for every persisted invite code other than the bypass code, register
\* creates at most one account on that code, whatever the interleaving of
\* the requests' database calls.
C5_AtMostOneAccountPerInvite ==
  \A c \in DOMAIN invites : c # invite_code => Cardinality(CreatedWith(c)) <= 1

-----------------------------------------------------------------------------
(* C6 *)

\* C6: a used invite row never changes and is never deleted (a further
\* consume_invite or revoke_invite leaves it as the first consumer set it),
\* and invite_is_valid is false for it from then on; so a row that a step
\* removes was unused.
C6_UsedInviteFrozen ==
  [][ /\ \A c \in DOMAIN invites :
           invites[c].is_used = 1 =>
             /\ c \in DOMAIN invites'
             /\ invites'[c] = invites[c]
             /\ ~invite_is_valid(c)
             /\ ~(invite_is_valid(c))'
      /\ \A c \in DOMAIN invites \ DOMAIN invites' : invites[c].is_used = 0
    ]_vars

\* two requests have consumed the same code, then the super revoked it: the
\* row is still that of the first consumer
C6_Witness ==
  /\ Cardinality(CreatedWith("HJKLM")) = 2
  /\ \A r \in DOMAIN reg : reg[r].pc = "idle"
  /\ "HJKLM" \in DOMAIN invites
  /\ invites["HJKLM"].is_used = 1
  /\ invites["HJKLM"].used_by \in {Some("bob"), Some("eve")}
  /\ resp.op = "admin_users_action"
  /\ resp.flash = << Flash("ok", "Revoked") >>

-----------------------------------------------------------------------------
(* C7 *)

\* C7: with a bypass code configured, invite_is_valid(bypass code) is true
\* before and after every step, and a registration that presented the bypass
\* code leaves every row of the invites table as it was.
C7_BypassNeverConsumed ==
  [][ invite_code # "" =>
        /\ invite_is_valid(invite_code)
        /\ (invite_is_valid(invite_code))'
        /\ \A e \in created' \ created :
             (e.invite_required /\ e.invite = invite_code) => invites' = invites
    ]_vars

\* two accounts were registered on the bypass code while the table holds an
\* unused row of the same code
C7_Witness ==
  /\ invite_code = "ABCDE"
  /\ Cardinality(CreatedWith("ABCDE")) = 2
  /\ "ABCDE" \in DOMAIN invites
  /\ invites["ABCDE"].is_used = 0

-----------------------------------------------------------------------------
(* C2 *)

\* the uploader role the handlers resolve for the stored file f
UploaderRoleOf(f) == meta_get_uploader_role(MetaOf(load_index, f))

\* the response is the answer of the handler op
AnswerOf(r, op) == r # << >> /\ r.op = op

\* the response is a redirect to the listing with one error flash
RejectedWithFlash(r) ==
  /\ r.status = 302
  /\ r.to = "index"
  /\ Len(r.flash) = 1
  /\ r.flash[1][1] = "error"

\* the records upload wrote for 'user' sessions still have what upload gave them
UserRecordsPristine ==
  \A f \in DOMAIN idx :
    Get(idx[f], "uploader_role") = Some("user") =>
      idx[f].urgency = "Normal" /\ idx[f].stage = ""

\* C2: a set_urgency or set_stage request of an admin or super session on a
\* stored file whose resolved uploader role is 'user' is answered with an
\* error flash and leaves the persisted index unchanged; the records of
\* user-uploaded files keep urgency 'Normal' and stage ''.
C2_UserFilesNotEditable ==
  [][ /\ \A s \in FileSessions, f \in FileNames :
           (IsStaff(s) /\ f \in DOMAIN files /\ UploaderRoleOf(f) = "user") =>
             /\ \A form \in UrgencyForms :
                  (AnswerOf(resp', "set_urgency") /\ set_urgency(s, f, form)) =>
                    (idx' = idx /\ RejectedWithFlash(resp'))
             /\ \A form \in StageForms :
                  (AnswerOf(resp', "set_stage") /\ set_stage(s, f, form)) =>
                    (idx' = idx /\ RejectedWithFlash(resp'))
      /\ UserRecordsPristine
      /\ UserRecordsPristine'
    ]_vars

\* a staff request to change the stage of a user-uploaded file was rejected
C2_Witness ==
  /\ AnswerOf(resp, "set_stage")
  /\ RejectedWithFlash(resp)
  /\ "a.zip" \in DOMAIN files
  /\ "a.zip" \in DOMAIN idx
  /\ idx["a.zip"].uploader_role = "user"
  /\ idx["a.zip"].urgency = "Normal"
  /\ idx["a.zip"].stage = ""

-----------------------------------------------------------------------------
(* C3 *)

\* C3: delete_file on a stored file with a safe name removes the file and
\* its index entry exactly when the session role is admin or super or the
\* file's resolved uploader role is 'user'; otherwise it aborts with 403 and
\* leaves the files and the index unchanged.
C3_DeletePermission ==
  [][ \A s \in FileSessions, f \in FileNames :
        (AnswerOf(resp', "delete_file") /\ f \in DOMAIN files /\ delete_file(s, f)) =>
          IF IsStaff(s) \/ UploaderRoleOf(f) = "user"
          THEN /\ f \notin DOMAIN files'
               /\ f \notin DOMAIN idx'
               /\ resp'.status = 302
          ELSE /\ resp' = Abort("delete_file", 403)
               /\ files' = files
               /\ idx' = idx
    ]_vars

\* a delete was refused with 403 while a staff-uploaded file is stored
C3_Witness ==
  /\ resp = Abort("delete_file", 403)
  /\ \E f \in DOMAIN files :
       f \in DOMAIN idx /\ idx[f].uploader_role \in {"admin", "super"}

-----------------------------------------------------------------------------
(* C4 *)

\* C4: toggle_reviewed from an admin or super session aborts with 403; from
\* a 'user' session on a stored file whose resolved uploader role is 'user'
\* it is answered with an error flash; both leave the persisted index
\* unchanged.  A toggle_reviewed request that changes the index comes from a
\* 'user' session, addresses a staff-uploaded file and changes reviewed_by.
C4_ReviewedToggle ==
  [][ \A s \in FileSessions, f \in FileNames, form \in ReviewForms :
        (AnswerOf(resp', "toggle_reviewed") /\ toggle_reviewed(s, f, form)) =>
          /\ IsStaff(s) => (resp' = Abort("toggle_reviewed", 403) /\ idx' = idx)
          /\ (~IsStaff(s) /\ f \in DOMAIN files /\ UploaderRoleOf(f) = "user") =>
               (RejectedWithFlash(resp') /\ idx' = idx)
          /\ idx' # idx =>
               /\ Get(s, "role") = Some("user")
               /\ f \in DOMAIN files
               /\ UploaderRoleOf(f) \in {"admin", "super"}
               /\ f \in DOMAIN idx'
               /\ SessionUser(s) \in DOMAIN idx'[f].reviewed_by
    ]_vars

\* a 'user' session was told that its own kind of file needs no review
C4_Witness ==
  /\ AnswerOf(resp, "toggle_reviewed")
  /\ RejectedWithFlash(resp)
  /\ \E f \in DOMAIN files : f \in DOMAIN idx /\ idx[f].uploader_role = "user"

-----------------------------------------------------------------------------
(* C8 *)

\* C8: every record of the persisted index has a note of at most 100
\* characters and a stage that is canonical or empty.
C8_IndexNormalized ==
  \A f \in DOMAIN idx :
    /\ Len(idx[f].note) <= 100
    /\ idx[f].stage \in Range(STAGE_CHOICES) \cup {""}

\* a record holds a note cut to 100 characters and a stage set by its alias
C8_Witness ==
  \E f \in DOMAIN idx :
    /\ Len(idx[f].note) = 100
    /\ idx[f].stage = "Rewritten/Updated version"

-----------------------------------------------------------------------------
(* C10 *)

\* C10: approve by an admin or super session on a stored file F removes F
\* from the file directory, puts its content in _approved under F when that
\* name was free and under <stem>__approved_<timestamp><suffix> otherwise,
\* removes F's index entry and leaves every other entry as it was; approve
\* from a 'user' session aborts with 403 and changes nothing.
C10_Approve ==
  [][ \A s \in FileSessions, f \in FileNames :
        (AnswerOf(resp', "approve") /\ approve(s, f)) =>
          /\ (IsStaff(s) /\ f \in DOMAIN files) =>
               LET target == IF f \in DOMAIN approved
                             THEN Stem(f) \o "__approved_" \o StrfTime(now) \o Suffix(f)
                             ELSE f
               IN  /\ f \notin DOMAIN files'
                   /\ target \in DOMAIN approved'
                   /\ approved'[target] = files[f].content
                   /\ DOMAIN idx' = DOMAIN idx \ {f}
                   /\ \A g \in DOMAIN idx' : idx'[g] = idx[g]
          /\ ~IsStaff(s) =>
               /\ resp' = Abort("approve", 403)
               /\ files' = files
               /\ approved' = approved
               /\ idx' = idx
    ]_vars

\* a.zip was approved twice: the second copy went under a timestamped name
C10_Witness ==
  /\ AnswerOf(resp, "approve")
  /\ resp.status = 302
  /\ "a.zip" \in DOMAIN approved
  /\ \E t \in 0..MaxTime :
       ("a__approved_" \o StrfTime(t) \o ".zip") \in DOMAIN approved
  /\ "a.zip" \notin DOMAIN files
  /\ "a.zip" \notin DOMAIN idx

-----------------------------------------------------------------------------
(* C11 *)

\* C11: a file once archived in _approved stays there with its content:
\* no step (in particular no approve) removes or replaces it, and each
\* successful approve adds exactly one file to _approved.
C11_ArchiveNeverReplaces ==
  [][ /\ \A n \in DOMAIN approved :
           n \in DOMAIN approved' /\ approved'[n] = approved[n]
      /\ (AnswerOf(resp', "approve") /\ resp'.status = 302 /\ files' # files) =>
           Cardinality(DOMAIN approved') = Cardinality(DOMAIN approved) + 1
    ]_vars

-----------------------------------------------------------------------------
(* C12 *)

\* u is the only active super account
LastActiveSuper(u) ==
  /\ u \in DOMAIN users
  /\ users[u].role = "super"
  /\ users[u].is_active = 1
  /\ count_supers = 1

\* C12: a delete_user request of a super session on an existing account
\* leaves the users table unchanged when the target is the last active
\* super, and removes the target's row in every other case.
C12_DeleteUser ==
  [][ \A s \in sessions, u \in Usernames :
        ( /\ AnswerOf(resp', "admin_users_action")
          /\ Get(s, "role") = Some("super")
          /\ u \in DOMAIN users
          /\ admin_users_action(s, [action |-> "delete_user", username |-> u], {}) ) =>
          IF LastActiveSuper(u)
          THEN users' = users
          ELSE u \notin DOMAIN users'
    ]_vars

-----------------------------------------------------------------------------
(* The uploader-role study: the index holds one record of a bounded set of *)
(* inputs of meta_get_uploader_role (records as an earlier index file may  *)
(* hold them, with or without the role snapshot); the sessions upload, the *)
(* super session manages the accounts, and bob tries to delete files       *)

\* the records meta_get_uploader_role is applied to, besides those of upload
RoleInputs ==
  { << >>,
    [uploader |-> "bob"],
    [uploader |-> "ann"],
    [uploader |-> "zed"],
    [uploader |-> ""],
    [uploader |-> "bob", uploader_role |-> "admin"],
    [uploader |-> "ann", uploader_role |-> "user"],
    [uploader |-> "bob", uploader_role |-> "guest"],
    [uploader |-> "zed", uploader_role |-> ""] }

RoleForms ==
  {[action |-> a, username |-> u] :
     a \in {"promote", "demote", "make_super", "delete_user"}, u \in {"ann", "bob"}}

InitRoles ==
  /\ users = SeededUsers
  /\ sessions = FileSessions
  /\ invite_code = ""
  /\ invites = << >>
  /\ reg = << >>
  /\ created = {}
  /\ files = ("old.zip" :> [content |-> 0, mtime |-> 0])
  /\ approved = << >>
  /\ idx \in {("old.zip" :> meta) : meta \in RoleInputs}
  /\ next_content = 1
  /\ now = 0
  /\ resp = << >>
  /\ served = 0
  /\ nsIn = None
  /\ nsOut = << >>
  /\ mailer = DefaultMailer
  /\ outbox = << >>

RolesUpload ==
  /\ \E s \in ArchiveSessions, form \in UploadForms : upload(s, Some("a.zip"), form)
  /\ UNCHANGED served

RolesManage ==
  /\ \E form \in RoleForms : admin_users_action(Session("root", "super"), form, {})
  /\ UNCHANGED served

RolesDelete ==
  /\ \E f \in {"old.zip", "a.zip"} : delete_file(Session("bob", "user"), f)
  /\ UNCHANGED served

NextRoles == RolesUpload \/ RolesManage \/ RolesDelete

SpecRoles == InitRoles /\ [][NextRoles]_vars

-----------------------------------------------------------------------------
(* C13 *)

\* the uploader role of a record, as the claim states it
StatedUploaderRole(meta) ==
  IF "uploader_role" \in DOMAIN meta /\ meta.uploader_role \in {"user", "admin", "super"}
  THEN meta.uploader_role
  ELSE IF "uploader" \in DOMAIN meta /\ meta.uploader \in DOMAIN users
       THEN users[meta.uploader].role
       ELSE "admin"

\* the role of the session that username holds (the sessions predate every
\* change of the accounts)
SessionRoleOf(username) ==
  (CHOOSE s \in FileSessions : s.user = username).role

\* C13: the resolved uploader role of every index record is the stored
\* uploader_role when that is user, admin or super, else the current role of
\* the uploader's account when it exists, else admin; and for every record
\* upload created it is the role the uploader's session had at the upload,
\* whatever has been done to the uploader's account since.
C13_UploaderRole ==
  \A f \in DOMAIN idx :
    /\ meta_get_uploader_role(idx[f]) = StatedUploaderRole(idx[f])
    /\ "uploaded_at" \in DOMAIN idx[f] =>
         meta_get_uploader_role(idx[f]) = SessionRoleOf(idx[f].uploader)

\* bob uploaded a.zip and was promoted since (or ann uploaded and was
\* demoted), next to an older record that has no valid snapshot
C13_Witness ==
  /\ "a.zip" \in DOMAIN idx
  /\ "old.zip" \in DOMAIN idx
  /\ Get(idx["old.zip"], "uploader_role") \notin {Some("user"), Some("admin"), Some("super")}
  /\ idx["a.zip"].uploader \in DOMAIN users
  /\ users[idx["a.zip"].uploader].role # idx["a.zip"].uploader_role
  /\ meta_get_uploader_role(idx["a.zip"]) = idx["a.zip"].uploader_role

-----------------------------------------------------------------------------
(* Routes: the file listing *)

EndsWith(str, tail) ==
  Len(str) >= Len(tail) /\ SubSeq(str, Len(str) - Len(tail) + 1, Len(str)) = tail

\* visible_files_for: FILES_DIR.glob("*.zip"), as a set; the pattern matches
\* the case of the letters (a POSIX file system)
visible_files_for == {f \in DOMAIN files : EndsWith(f, ".zip")}

\* the orders in which glob may yield the files of S
GlobOrders(S) ==
  {order \in [1..Cardinality(S) -> S] : \A i, j \in 1..Cardinality(S) : order[i] = order[j] => i = j}

urgency_rank(urgency) == IF urgency = "High" THEN 0 ELSE 1

\* the sort key with the modification time not negated: oldest first
KeyAtMostOldestFirst(a, b) ==
  \/ urgency_rank(a.urgency) < urgency_rank(b.urgency)
  \/ urgency_rank(a.urgency) = urgency_rank(b.urgency) /\ a.mtime <= b.mtime

\* the sort key of sort_rows compared: (rank, -mtime) of a is at most that of b
KeyAtMost(a, b) ==
  \/ urgency_rank(a.urgency) < urgency_rank(b.urgency)
  \/ urgency_rank(a.urgency) = urgency_rank(b.urgency) /\ a.mtime >= b.mtime

\* r put into the sorted rows behind every row whose key is at most its own
RECURSIVE InsertRow(_, _)
InsertRow(sorted, r) ==
  IF Len(sorted) = 0
  THEN << r >>
  ELSE IF KeyAtMost(Head(sorted), r)
       THEN << Head(sorted) >> \o InsertRow(Tail(sorted), r)
       ELSE << r >> \o sorted

\* sort_rows: list.sort by the key, a stable sort
RECURSIVE sort_rows(_)
sort_rows(rows) ==
  IF Len(rows) = 0
  THEN << >>
  ELSE InsertRow(sort_rows(SubSeq(rows, 1, Len(rows) - 1)), rows[Len(rows)])

\* the row index builds for the file name (its size is not modelled)
ListingRow(s, data, name) ==
  LET meta == MetaOf(data, name)
      role == GetOr(s, "role", "user")
      uploader_role == meta_get_uploader_role(meta)
  IN  [name |-> name,
       mtime |-> files[name].mtime,
       urgency |-> GetOr(meta, "urgency", "Normal"),
       stage |-> normalize_stage(Get(meta, "stage")),
       reviewed |-> GetOr(GetOr(meta, "reviewed_by", << >>), SessionUser(s), FALSE),
       note |-> GetOr(meta, "note", ""),
       note_by |-> GetOr(meta, "note_by", ""),
       note_at |-> GetOr(meta, "note_at", ""),
       uploader_role |-> uploader_role,
       can_delete |-> (role \in {"admin", "super"} \/ uploader_role = "user")]

IsUserRow(r) == r.uploader_role = "user"

IsAdminRow(r) == r.uploader_role # "user"

\* index (GET /): the page rendered, with its two lists of rows; order is
\* the order in which glob yields the files
IndexOutcome(s, order) ==
  LET data == load_index
      rows == [i \in DOMAIN order |-> ListingRow(s, data, order[i])]
  IN  IF ~LoggedIn(s)
      THEN Redirect("index", "login", << >>)
      ELSE [op |-> "index", status |-> 200, to |-> "", flash |-> << >>,
            admin_rows |-> sort_rows(SelectSeq(rows, IsAdminRow)),
            user_rows |-> sort_rows(SelectSeq(rows, IsUserRow))]

index(s, order) ==
  /\ order \in GlobOrders(visible_files_for)
  /\ resp' = IndexOutcome(s, order)
  /\ UNCHANGED <<users, sessions, invite_code, invites, reg, created, files,
                 approved, idx, next_content, now, nsIn, nsOut, mailer, outbox>>

-----------------------------------------------------------------------------
(* The listing study: the staff and a user upload files of high and normal *)
(* urgency at different times, each file under a name not yet stored, and  *)
(* open the listing                                                        *)

ListingUploads == {Some("a.zip"), Some("c.zip"), Some("e.zip")}

ListingForms == {<< >>, [urgency |-> "high"]}

ListingUpload ==
  /\ \E s \in ArchiveSessions, file \in ListingUploads, form \in ListingForms :
       /\ SafeName(file[1]) \notin DOMAIN files
       /\ upload(s, file, form)
  /\ UNCHANGED served

ListingIndex ==
  /\ \E s \in ArchiveSessions \cup {NoSession}, order \in GlobOrders(visible_files_for) :
       index(s, order)
  /\ UNCHANGED served

NextListing == ListingUpload \/ ListingIndex \/ Tick

SpecListing == InitFiles /\ [][NextListing]_vars

-----------------------------------------------------------------------------
(* C14 *)

\* the names of the rows of a list
RowNames(rows) == {rows[i].name : i \in DOMAIN rows}

\* every High row of the list precedes every other row, and rows of equal
\* urgency rank come most recently modified first
WellOrdered(rows) ==
  \A i, j \in DOMAIN rows :
    i < j =>
      /\ ~(rows[i].urgency # "High" /\ rows[j].urgency = "High")
      /\ (rows[i].urgency = "High") = (rows[j].urgency = "High") =>
           rows[i].mtime >= rows[j].mtime

\* the page shows each listed file once, in the list of its uploader role,
\* with the file's urgency and modification time, both lists well ordered
ListingAsStated(page) ==
  /\ RowNames(page.admin_rows) \cup RowNames(page.user_rows) = visible_files_for
  /\ Len(page.admin_rows) + Len(page.user_rows) = Cardinality(visible_files_for)
  /\ \A i \in DOMAIN page.admin_rows :
       LET r == page.admin_rows[i]
       IN  /\ UploaderRoleOf(r.name) # "user"
           /\ r.mtime = files[r.name].mtime
           /\ r.urgency = idx[r.name].urgency
  /\ \A i \in DOMAIN page.user_rows :
       LET r == page.user_rows[i]
       IN  /\ UploaderRoleOf(r.name) = "user"
           /\ r.mtime = files[r.name].mtime
           /\ r.urgency = idx[r.name].urgency
  /\ WellOrdered(page.admin_rows)
  /\ WellOrdered(page.user_rows)

\* C14: the listing puts every listed file in exactly one of admin_rows
\* (resolved uploader role not 'user') and user_rows (resolved uploader role
\* 'user'); in each list every High row precedes every non-High row and rows
\* of equal urgency rank are ordered by modification time, most recent first.
C14_Listing ==
  [][ (AnswerOf(resp', "index") /\ resp'.status = 200) => ListingAsStated(resp') ]_vars

\* a listing with three staff files: High ones of two different times before
\* a Normal one
C14_Witness ==
  /\ AnswerOf(resp, "index")
  /\ resp.status = 200
  /\ Len(resp.admin_rows) = 3
  /\ resp.admin_rows[1].urgency = "High"
  /\ resp.admin_rows[2].urgency = "High"
  /\ resp.admin_rows[1].mtime > resp.admin_rows[2].mtime
  /\ resp.admin_rows[3].urgency = "Normal"
  /\ resp.admin_rows[3].mtime > resp.admin_rows[2].mtime

-----------------------------------------------------------------------------
(* The newcomer study: the super generates an invite, a visitor registers  *)
(* with it, uploads files and opens the listing                            *)

JourneyInviteForms == {[action |-> "gen_invites", count |-> "1", length |-> "5"]}

JourneyRegForms ==
  {[invite |-> i, username |-> "eve", password |-> "pw"] : i \in {"HJKLM", "WRONG"}}

JourneyUploads == {Some("a.zip"), Some("B.ZIP"), Some("d.txt")}

JourneyUploadForms == {<< >>, [urgency |-> "High", stage |-> "Rewritten version"]}

InitJourney ==
  /\ users = ( "root" :> [role |-> "super", is_active |-> 1] )
  /\ sessions = {Session("root", "super")}
  /\ invite_code = ""
  /\ invites = << >>
  /\ reg = << >>
  /\ created = {}
  /\ files = << >>
  /\ approved = << >>
  /\ idx = << >>
  /\ next_content = 1
  /\ now = 0
  /\ resp = << >>
  /\ served = 0
  /\ nsIn = None
  /\ nsOut = << >>
  /\ mailer = DefaultMailer
  /\ outbox = << >>

JourneyInvite ==
  /\ \E form \in JourneyInviteForms, picked \in {{"HJKLM"}} :
       admin_users_action(Session("root", "super"), form, picked)
  /\ UNCHANGED served

JourneyRegister ==
  /\ \E form \in JourneyRegForms : register(NoSession, form)
  /\ UNCHANGED served

JourneyUpload ==
  /\ \E s \in sessions, file \in JourneyUploads, form \in JourneyUploadForms :
       upload(s, file, form)
  /\ UNCHANGED served

JourneyIndex ==
  /\ \E s \in sessions, order \in GlobOrders(visible_files_for) : index(s, order)
  /\ UNCHANGED served

NextJourney == JourneyInvite \/ JourneyRegister \/ JourneyUpload \/ JourneyIndex \/ Tick

SpecJourney == InitJourney /\ [][NextJourney]_vars

-----------------------------------------------------------------------------
(* C15 *)

\* the accounts created by a register request that had to present an invite
InvitedUsers == {c.username : c \in {d \in created : d.invite_required}}

\* the sessions those register requests established
RegisteredSessions == {s \in sessions : s.user \in InvitedUsers}

\* a register request with a valid unused invite that succeeds leaves a
\* logged-in session of role 'user'
RegisterLogsIn ==
  \A form \in JourneyRegForms :
    ( /\ AnswerOf(resp', "register")
      /\ form.invite \in DOMAIN invites
      /\ invites[form.invite].is_used = 0
      /\ register(NoSession, form)
      /\ resp'.to = "index" ) =>
      Session(form.username, "user") \in sessions'

\* an upload of a zip file from a registered session writes a record of
\* uploader role 'user', urgency 'Normal' and stage '', whatever the form says
NewcomerUploadIsPlain ==
  \A s \in RegisteredSessions, file \in JourneyUploads, form \in JourneyUploadForms :
    ( /\ AnswerOf(resp', "upload")
      /\ Extension(file[1]) = "zip"
      /\ upload(s, file, form) ) =>
      LET name == SafeName(file[1])
      IN  /\ name \in DOMAIN idx'
          /\ idx'[name].uploader = s.user
          /\ idx'[name].uploader_role = "user"
          /\ idx'[name].urgency = "Normal"
          /\ idx'[name].stage = ""

\* a listing shows every stored file that a registered session uploaded in
\* user_rows and not in admin_rows
NewcomerFilesListed ==
  (AnswerOf(resp', "index") /\ resp'.status = 200) =>
    \A f \in DOMAIN files :
      (f \in DOMAIN idx /\ idx[f].uploader \in InvitedUsers) =>
        /\ f \in RowNames(resp'.user_rows)
        /\ f \notin RowNames(resp'.admin_rows)

\* C15: a register request with a valid unused invite that succeeds leaves
\* the session logged in with role 'user'; an upload of a zip file from
\* that session creates an index record with uploader_role 'user', urgency
\* 'Normal' and stage '' whatever the form supplies; the next listing shows
\* that file in user_rows and not in admin_rows.
C15_NewcomerJourney ==
  [][ RegisterLogsIn /\ NewcomerUploadIsPlain /\ NewcomerFilesListed ]_vars

-----------------------------------------------------------------------------
(* set_note and set_stage (POST), one step per access to the index file:   *)
(* the checks and load_index, then the edit and save_index.  Requests run  *)
(* concurrently in MaxRegs workers; a worker that has answered keeps its   *)
(* response.                                                               *)

EditUnchanged ==
  <<users, sessions, invite_code, invites, created, files, approved, next_content,
    now, served, nsIn, nsOut, mailer, outbox>>

\* the worker has answered
Answered(op, r) == [pc |-> "done", op |-> op, resp |-> r]

\* the worker holds the index it loaded and the value it is about to write
Loaded(op, s, filename, value, flashes, data) ==
  [pc |-> "save", op |-> op, user |-> SessionUser(s), filename |-> filename,
   value |-> value, flashes |-> flashes, data |-> data]

\* the index a worker edits and saves, read again at the time of the save
EditBaseFresh(w) == load_index

\* the index a worker edits and saves: its local idx, as load_index returned it
EditBase(w) == w.data

\* set_note up to idx = load_index()
set_note_load(r, s, filename, form) ==
  LET op == "set_note"
      gate == Gate(op, s, filename, FALSE)
      typed == Strip(GetOr(form, "note", ""))
      note == IF Len(typed) > 100 THEN Prefix(typed, 100) ELSE typed
      cut == IF Len(typed) > 100
             THEN << Flash("error", "Note truncated to 100 characters.") >>
             ELSE << >>
  IN  /\ reg[r].pc = "idle"
      /\ IF gate # None
         THEN /\ reg' = [reg EXCEPT ![r] = Answered(op, gate[1])]
              /\ resp' = gate[1]
         ELSE /\ reg' = [reg EXCEPT ![r] = Loaded(op, s, filename, note, cut, load_index)]
              /\ resp' = resp
      /\ idx' = idx
      /\ UNCHANGED EditUnchanged

\* set_note from meta = idx.get(filename) or {} to the redirect
set_note_save(r) ==
  LET w == reg[r]
      data == EditBase(w)
      meta == MetaOf(data, w.filename)
      edited == Put(Put(Put(meta, "note", w.value), "note_by", w.user),
                    "note_at", IsoFormat(now))
      answer == ToIndex(w.op, w.flashes \o << Flash("ok", "Note saved.") >>)
  IN  /\ w.pc = "save"
      /\ w.op = "set_note"
      /\ idx' = save_index(Put(data, w.filename, edited))
      /\ reg' = [reg EXCEPT ![r] = Answered(w.op, answer)]
      /\ resp' = answer
      /\ UNCHANGED EditUnchanged

\* set_stage up to the uploader-role check
set_stage_load(r, s, filename, form) ==
  LET op == "set_stage"
      gate == Gate(op, s, filename, TRUE)
      data == load_index
      blocked == ToIndex(op, << Flash("error",
                   "Cannot change stage for files uploaded by Amazon users.") >>)
  IN  /\ reg[r].pc = "idle"
      /\ IF gate # None
         THEN /\ reg' = [reg EXCEPT ![r] = Answered(op, gate[1])]
              /\ resp' = gate[1]
         ELSE IF StaffEditBlocked(MetaOf(data, filename))
              THEN /\ reg' = [reg EXCEPT ![r] = Answered(op, blocked)]
                   /\ resp' = blocked
              ELSE /\ reg' = [reg EXCEPT ![r] =
                                Loaded(op, s, filename, FormStage(form), << >>, data)]
                   /\ resp' = resp
      /\ idx' = idx
      /\ UNCHANGED EditUnchanged

\* set_stage from meta["stage"] = new_stage to the redirect
set_stage_save(r) ==
  LET w == reg[r]
      data == EditBase(w)
      meta == MetaOf(data, w.filename)
      answer == ToIndex(w.op, << Flash("ok", "Updated stage") >>)
  IN  /\ w.pc = "save"
      /\ w.op = "set_stage"
      /\ idx' = save_index(Put(data, w.filename, Put(meta, "stage", w.value)))
      /\ reg' = [reg EXCEPT ![r] = Answered(w.op, answer)]
      /\ resp' = answer
      /\ UNCHANGED EditUnchanged

-----------------------------------------------------------------------------
(* The writers study: an admin and a user upload two files, then the       *)
(* workers run set_note and set_stage requests concurrently                *)

EditUploads == {Some("a.zip"), Some("c.zip")}

EditNoteForms == {[note |-> "  see page 2 "]}

EditStageForms == {[stage |-> "Rewritten version"]}

InitEdits ==
  /\ users = SeededUsers
  /\ sessions = FileSessions
  /\ invite_code = ""
  /\ invites = << >>
  /\ reg = [r \in 1..MaxRegs |-> Idle]
  /\ created = {}
  /\ files = << >>
  /\ approved = << >>
  /\ idx = << >>
  /\ next_content = 1
  /\ now = 0
  /\ resp = << >>
  /\ served = 0
  /\ nsIn = None
  /\ nsOut = << >>
  /\ mailer = DefaultMailer
  /\ outbox = << >>

EditsUpload ==
  /\ \E s \in ArchiveSessions, file \in EditUploads :
       /\ SafeName(file[1]) \notin DOMAIN files
       /\ upload(s, file, << >>)
  /\ UNCHANGED served

SetNoteLoad ==
  \E r \in 1..MaxRegs, s \in ArchiveSessions, f \in {"a.zip", "c.zip"}, form \in EditNoteForms :
    set_note_load(r, s, f, form)

SetNoteSave == \E r \in 1..MaxRegs : set_note_save(r)

SetStageLoad ==
  \E r \in 1..MaxRegs, s \in ArchiveSessions, f \in {"a.zip", "c.zip"}, form \in EditStageForms :
    set_stage_load(r, s, f, form)

SetStageSave == \E r \in 1..MaxRegs : set_stage_save(r)

NextEdits == EditsUpload \/ SetNoteLoad \/ SetNoteSave \/ SetStageLoad \/ SetStageSave

SpecEdits == InitEdits /\ [][NextEdits]_vars

-----------------------------------------------------------------------------
(* C16 *)

\* the response reports success: a redirect to the listing ending in an ok flash
Succeeded(r) ==
  /\ r.status = 302
  /\ r.to = "index"
  /\ Len(r.flash) >= 1
  /\ r.flash[Len(r.flash)][1] = "ok"

\* the record carries the edit the writer w made (w as it was before its save)
HasEdit(meta, w) ==
  IF w.op = "set_note"
  THEN "note" \in DOMAIN meta /\ meta.note = w.value /\ meta.note_by = w.user
  ELSE "stage" \in DOMAIN meta /\ meta.stage = w.value

\* C16: a writer that saves after another request changed the index it had
\* loaded still completes successfully; the persisted index is then the
\* index that writer loaded with its own edit, so every record of another
\* file is what it was when the writer loaded it, and whatever was written
\* in between is lost.
C16_LastWriterWins ==
  [][ \A r \in DOMAIN reg :
        (reg[r].pc = "save" /\ reg'[r].pc = "done") =>
          LET w == reg[r]
          IN  /\ Succeeded(reg'[r].resp)
              /\ w.filename \in DOMAIN idx'
              /\ HasEdit(idx'[w.filename], w)
              /\ DOMAIN idx' = DOMAIN w.data \cup {w.filename}
              /\ \A f \in DOMAIN w.data \ {w.filename} : idx'[f] = w.data[f]
    ]_vars

\* a set_note and a set_stage request both loaded the index before either
\* saved; both answered with success, and the index holds the stage but no
\* note at all
C16_Witness ==
  /\ \A r \in DOMAIN reg : reg[r].pc = "done"
  /\ \E r, q \in DOMAIN reg :
       /\ reg[r].op = "set_note"
       /\ reg[q].op = "set_stage"
       /\ Succeeded(reg[r].resp)
       /\ Succeeded(reg[q].resp)
  /\ {"a.zip", "c.zip"} \subseteq DOMAIN idx
  /\ \A f \in DOMAIN idx : idx[f].note = "" /\ idx[f].note_by = ""
  /\ idx["c.zip"].stage = "Rewritten/Updated version"

-----------------------------------------------------------------------------
(* notification study: uploads under every mail setting *)

\* users tables with addresses: one where both directions have a recipient
\* (ann's address is blank), one where no address survives the stripping,
\* one without any address
MailUsers ==
  { ( "root" :> [role |-> "super", is_active |-> 1, email |-> "root@x"] ) @@
    ( "ann" :> [role |-> "admin", is_active |-> 1, email |-> " "] ) @@
    ( "bob" :> [role |-> "user", is_active |-> 1, email |-> "bob@x "] ),
    ( "root" :> [role |-> "super", is_active |-> 1, email |-> ""] ) @@
    ( "ann" :> [role |-> "admin", is_active |-> 1] ) @@
    ( "bob" :> [role |-> "user", is_active |-> 1, email |-> " "] ),
    SeededUsers }

MailSettings == [enabled : BOOLEAN, credentials : BOOLEAN, up : BOOLEAN]

MailUploads == {Some("a.zip"), Some("d.txt")}

MailForms == {<< >>}

InitMail ==
  /\ users \in MailUsers
  /\ sessions = ArchiveSessions
  /\ invite_code = ""
  /\ invites = << >>
  /\ reg = << >>
  /\ created = {}
  /\ files = << >>
  /\ approved = << >>
  /\ idx = << >>
  /\ next_content = 1
  /\ now = 0
  /\ resp = << >>
  /\ served = 0
  /\ nsIn = None
  /\ nsOut = << >>
  /\ mailer \in MailSettings
  /\ outbox = << >>

MailUpload ==
  /\ \E s \in ArchiveSessions, file \in MailUploads, form \in MailForms :
       upload(s, file, form)
  /\ UNCHANGED served

\* the SMTP server goes down or comes back between two requests
SmtpFlips ==
  /\ mailer' = [mailer EXCEPT !.up = ~@]
  /\ UNCHANGED <<users, sessions, invite_code, invites, reg, created, files, approved,
                 idx, next_content, now, resp, served, nsIn, nsOut, outbox>>

\* the clock stands still in this study: no mail depends on it
NextMail ==
  \/ MailUpload
  \/ SmtpFlips

SpecMail == InitMail /\ [][NextMail]_vars

-----------------------------------------------------------------------------
(* C17 *)

\* the upload passes validation: a logged-in requester, a file part with a
\* name, an allowed extension
PassesValidation(s, file) ==
  /\ LoggedIn(s)
  /\ file # None
  /\ file # Some("")
  /\ Extension(file[1]) \in ALLOWED_EXT

\* the stored file, the index contents and the answer of a validated upload,
\* written without any reference to the mail settings or the addresses
UploadEffect(s, file, form) ==
  LET name == SafeName(file[1])
  IN  /\ files' = Put(files, name, [content |-> next_content, mtime |-> now])
      /\ name \in DOMAIN idx'
      /\ idx'[name].uploader = SessionUser(s)
      /\ idx'[name].uploader_role = GetOr(s, "role", "user")
      /\ \A f \in DOMAIN idx \ {name} : f \in DOMAIN idx' /\ idx'[f] = idx[f]
      /\ DOMAIN idx' = DOMAIN idx \cup {name}
      /\ resp' = ToIndex("upload", << Flash("ok", "Uploaded") >>)

\* the sends of one upload: none or one appended to the outbox, the earlier
\* ones untouched, and the one made names a file that is stored and indexed
AtMostOneSend(s, file) ==
  /\ Len(outbox') \in {Len(outbox), Len(outbox) + 1}
  /\ SubSeq(outbox', 1, Len(outbox)) = outbox
  /\ Len(outbox') = Len(outbox) + 1 =>
       /\ outbox'[Len(outbox')].subject = "New File Upload: " \o SafeName(file[1])
       /\ SafeName(file[1]) \in DOMAIN files' \cap DOMAIN idx'

\* C17: every upload that passes validation stores the file, saves its index
\* record and answers with the redirect to the listing, whatever the mail
\* settings, the recipients and the SMTP server do; it opens at most one SMTP
\* session, for a file already stored and indexed, and a step that stores no
\* file sends nothing
C17_NotificationBestEffort ==
  [][ /\ \A s \in ArchiveSessions, file \in MailUploads, form \in MailForms :
           ( /\ AnswerOf(resp', "upload")
             /\ PassesValidation(s, file)
             /\ upload(s, file, form) ) =>
             ( UploadEffect(s, file, form) /\ AtMostOneSend(s, file) )
      /\ files' = files => outbox' = outbox ]_vars

\* uploads were answered with the redirect under a send that was delivered
\* and under one that raised
C17_Witness ==
  /\ AnswerOf(resp, "upload")
  /\ resp.to = "index"
  /\ \E i, j \in 1..Len(outbox) : outbox[i].delivered /\ ~outbox[j].delivered

-----------------------------------------------------------------------------
(* edits study: the metadata endpoints on an index of two records *)

MaxEdits == 2

EditSessions == {Session("ann", "admin"), Session("bob", "user")}

EditNames == {"a.zip", "c.zip"}

EditUrgencyForms == {<< >>, [urgency |-> "HIGH"]}

EditStageChoices == {[stage |-> " "], [stage |-> "Rewritten version"]}

EditReviewForms == {[checked |-> << "0", "1" >>], [checked |-> << "0" >>]}

EditNotes == {[note |-> "  see page 2 "], [note |-> Repeat("x", 100) \o "y "]}

\* the state after two uploads: a.zip by ann, with an urgency and a stage,
\* and c.zip by root or by bob
InitFrame ==
  /\ users = SeededUsers
  /\ sessions = EditSessions
  /\ invite_code = ""
  /\ invites = << >>
  /\ reg = << >>
  /\ created = {}
  /\ now = 0
  /\ files = ( "a.zip" :> [content |-> 1, mtime |-> 0] ) @@
             ( "c.zip" :> [content |-> 2, mtime |-> 0] )
  /\ approved = << >>
  /\ \E s \in {Session("root", "super"), Session("bob", "user")} :
       idx = save_index(
               ( "a.zip" :> NewRecord(Session("ann", "admin"), "High", "Rewritten/Updated version") ) @@
               ( "c.zip" :> NewRecord(s, "Normal", "") ))
  /\ next_content = 3
  /\ resp = << >>
  /\ served = 0
  /\ nsIn = None
  /\ nsOut = << >>
  /\ mailer = DefaultMailer
  /\ outbox = << >>

\* one more edit is served
ServeEdit ==
  /\ served < MaxEdits
  /\ served' = served + 1

FrameSetUrgency ==
  /\ \E s \in EditSessions, f \in EditNames, form \in EditUrgencyForms :
       set_urgency(s, f, form)
  /\ ServeEdit

FrameSetStage ==
  /\ \E s \in EditSessions, f \in EditNames, form \in EditStageChoices :
       set_stage(s, f, form)
  /\ ServeEdit

FrameToggleReviewed ==
  /\ \E s \in EditSessions, f \in EditNames, form \in EditReviewForms :
       toggle_reviewed(s, f, form)
  /\ ServeEdit

FrameSetNote ==
  /\ \E s \in EditSessions, f \in EditNames, form \in EditNotes :
       set_note(s, f, form)
  /\ ServeEdit

NextFrame ==
  \/ FrameSetUrgency
  \/ FrameSetStage
  \/ FrameToggleReviewed
  \/ FrameSetNote

SpecFrame == InitFrame /\ [][NextFrame]_vars

-----------------------------------------------------------------------------
(* C18 *)

\* the answer of a metadata endpoint that reached its save_index: the
\* redirect to the listing with an "ok" flash, or with no flash at all
\* (toggle_reviewed)
EditSucceeded(r) ==
  /\ r.status = 302
  /\ r.to = "index"
  /\ r.flash = << >> \/ \E i \in 1..Len(r.flash) : r.flash[i][1] = "ok"

\* of the stored state, only the fields own of record f may differ after the
\* step
OnlyFieldsChange(f, own) ==
  /\ files' = files
  /\ approved' = approved
  /\ f \in DOMAIN idx
  /\ DOMAIN idx' = DOMAIN idx
  /\ \A g \in DOMAIN idx \ {f} : idx'[g] = idx[g]
  /\ DOMAIN idx'[f] = DOMAIN idx[f]
  /\ \A k \in DOMAIN idx[f] \ own : idx'[f][k] = idx[f][k]

\* of reviewed_by of record f, only the entry of user may differ after the step
OnlyOwnFlagChanges(f, user) ==
  /\ DOMAIN idx'[f].reviewed_by = DOMAIN idx[f].reviewed_by \cup {user}
  /\ \A u \in DOMAIN idx[f].reviewed_by \ {user} :
       idx'[f].reviewed_by[u] = idx[f].reviewed_by[u]

-----------------------------------------------------------------------------
(* C19 *)

\* the invites table has no unused row
NoUnusedInvite == \A c \in DOMAIN invites : invites[c].is_used # 0

\* the form presents the configured bypass code or the code of a persisted
\* unused invite
PresentsValidInvite(form) ==
  LET invite == Strip(GetOr(form, "invite", ""))
  IN  /\ invite # ""
      /\ \/ invite_code # "" /\ invite = invite_code
         \/ invite \in DOMAIN invites /\ invites[invite].is_used = 0

\* C19: a register request that creates an account without presenting a
\* valid invite code was made while no bypass code was configured and no
\* invite was unused; while a bypass code is configured or an unused invite
\* exists, a register request that creates an account presented the bypass
\* code or a persisted unused invite code.
C19_OpenRegistration ==
  [][ \A s \in sessions \cup {NoSession}, form \in RegForms :
        ( /\ AnswerOf(resp', "register")
          /\ users' # users
          /\ register(s, form) ) =>
          /\ ~PresentsValidInvite(form) => (invite_code = "" /\ NoUnusedInvite)
          /\ (invite_code # "" \/ ~NoUnusedInvite) => PresentsValidInvite(form)
    ]_vars

\* an account was created without any code while registration was open, a
\* later one with a generated code, and a request without a valid code was
\* turned down while an invite was unused
C19_Witness ==
  /\ \E e \in created : ~e.invite_required /\ e.invite = ""
  /\ \E e \in created : e.invite_required /\ e.invite \in DOMAIN invites
  /\ ~NoUnusedInvite
  /\ resp = Redirect("register", "register", << Flash("error", "Invalid invite code.") >>)

-----------------------------------------------------------------------------
(* C20 *)

\* the account of the session's user exists, is active and holds one of roles
AccountAdmits(s, roles) ==
  /\ LoggedIn(s)
  /\ SessionUser(s) \in DOMAIN users
  /\ users[SessionUser(s)].is_active = 1
  /\ users[SessionUser(s)].role \in roles

\* the answer of a user-management request that was carried out
Managed(r) ==
  /\ r.status = 302
  /\ r.to = "admin_users"
  /\ \E i \in 1..Len(r.flash) : r.flash[i][1] = "ok"

\* C20: every admin_users_action request that is carried out comes from a
\* session whose account, when the request is made, exists, is active and
\* holds the super role.
C20_GatedByAccount ==
  [][ \A s \in sessions \cup {NoSession}, form \in UserForms :
        ( /\ AnswerOf(resp', "admin_users_action")
          /\ Managed(resp')
          /\ admin_users_action(s, form, {}) ) => AccountAdmits(s, {"super"})
    ]_vars

-----------------------------------------------------------------------------
(* C21 *)

\* the sessions of the files study that hold the role 'user'
UserSessions == {s \in FileSessions : Get(s, "role") = Some("user")}

\* every staff-uploaded file is still stored after the step, with the same
\* content, uploader, uploader_role, urgency and stage
StaffFilesKept ==
  \A f \in DOMAIN idx :
    (f \in DOMAIN files /\ Get(idx[f], "uploader_role") \in {Some("admin"), Some("super")}) =>
      /\ f \in DOMAIN files'
      /\ files'[f].content = files[f].content
      /\ f \in DOMAIN idx'
      /\ \A k \in {"uploader", "uploader_role", "urgency", "stage"} :
           Get(idx'[f], k) = Get(idx[f], k)

\* C21: no upload, set_note, toggle_reviewed or delete_file request of a
\* 'user' session removes or replaces a staff-uploaded file or changes the
\* uploader, uploader_role, urgency or stage of its record.
C21_UserCannotTouchStaffFiles ==
  [][ \A s \in UserSessions :
        ( \/ \E file \in UploadFiles, form \in UploadForms :
               AnswerOf(resp', "upload") /\ upload(s, file, form)
          \/ \E f \in FileNames, form \in NoteForms :
               AnswerOf(resp', "set_note") /\ set_note(s, f, form)
          \/ \E f \in FileNames, form \in ReviewForms :
               AnswerOf(resp', "toggle_reviewed") /\ toggle_reviewed(s, f, form)
          \/ \E f \in FileNames :
               AnswerOf(resp', "delete_file") /\ delete_file(s, f) ) => StaffFilesKept
    ]_vars

-----------------------------------------------------------------------------
(* The removals study: an admin uploads, deletes and archives files while  *)
(* the workers run set_note requests step by step                          *)

RemovalSessions == {Session("ann", "admin")}

RemovalsUpload ==
  /\ \E s \in RemovalSessions, file \in EditUploads :
       /\ SafeName(file[1]) \notin DOMAIN files
       /\ upload(s, file, << >>)
  /\ UNCHANGED served

RemovalsNoteLoad ==
  \E r \in 1..MaxRegs, s \in RemovalSessions, f \in {"a.zip", "c.zip"}, form \in EditNoteForms :
    set_note_load(r, s, f, form)

RemovalsNoteSave == \E r \in 1..MaxRegs : set_note_save(r)

RemovalsDelete ==
  /\ \E s \in RemovalSessions, f \in {"a.zip", "c.zip"} : delete_file(s, f)
  /\ UNCHANGED served

RemovalsApprove ==
  /\ \E s \in RemovalSessions, f \in {"a.zip", "c.zip"} : approve(s, f)
  /\ UNCHANGED served

NextRemovals ==
  \/ RemovalsUpload
  \/ RemovalsNoteLoad
  \/ RemovalsNoteSave
  \/ RemovalsDelete
  \/ RemovalsApprove

SpecRemovals == InitEdits /\ [][NextRemovals]_vars

-----------------------------------------------------------------------------
(* C22 *)

\* C22: every key of the persisted index names a file stored in the file
\* directory.
C22_IndexKeysAreFiles == DOMAIN idx \subseteq DOMAIN files

-----------------------------------------------------------------------------
(* The storage study: uploads under names of every allowed extension, and  *)
(* delete_file requests for the stored names                               *)

StoreUploads ==
  {Some("a.zip"), Some("B.ZIP"), Some("r.pdf"), Some("n.docx"), Some(".zip"),
   Some("x y,z.zip"), Some("d.txt"), Some("zip")}

StoreUpload ==
  /\ \E s \in RemovalSessions, file \in StoreUploads : upload(s, file, << >>)
  /\ UNCHANGED served

StoreDelete ==
  /\ \E s \in RemovalSessions, f \in DOMAIN files : delete_file(s, f)
  /\ UNCHANGED served

NextStore == StoreUpload \/ StoreDelete

SpecStore == InitFiles /\ [][NextStore]_vars

-----------------------------------------------------------------------------
(* C23 *)

\* C23: every stored file has a name that is_safe_filename accepts and that
\* the listing's "*.zip" pattern matches.
C23_StoredFilesReachable ==
  \A f \in DOMAIN files : is_safe_filename(f) /\ f \in visible_files_for

=============================================================================
